---- MODULE Spec2Model ----
(***************************************************************************)
(* Model of the mesh-rs node runtime (src/src/node.rs): the behaviour      *)
(* MyBehaviour that joins floodsub and mDNS, and the main loop of run()    *)
(* that selects among stdin lines, swarm events and the ctrl-c future.     *)
(*                                                                         *)
(* Strings are sequences of Unicode scalar values, byte strings are        *)
(* sequences of 0..255. The libp2p and tokio objects the file drives       *)
(* (Mdns, Floodsub, Swarm, Lines<BufReader<Stdin>>, ctrl_c) are the        *)
(* environment: their state is held in variables, their inputs are chosen  *)
(* nondeterministically.                                                   *)
(***************************************************************************)
EXTENDS Integers, Sequences, FiniteSets, TLC

\* ---------------------------------------------------------------- bounds
MaxLines == 2     \* delimited lines the input stream supplies in one run
MaxEvents == 2    \* behaviour events mDNS and floodsub produce in one run
MaxList == 1      \* entries in the list of one MdnsEvent

\* ------------------------------------------------------------ input sets
Peers == {"p1", "p2"}
\* (peer, address) pairs mDNS can report; p1 is reachable at two addresses.
MdnsEntries == {<<"p1", "a1">>, <<"p1", "a2">>, <<"p2", "a1">>}
\* Raw lines of the input stream: "hi\n", "e-acute\r\n", and a line that is
\* not valid UTF-8.
RawLines == {<<104, 105, 10>>, <<195, 169, 13, 10>>, <<104, 255, 10>>}
\* What can precede end-of-stream without a delimiter: nothing, "h", "h\r".
FinalLines == {<<>>, <<104>>, <<104, 13>>}
\* Payloads of inbound floodsub messages: "hi", and an invalid sequence.
Payloads == {<<104, 105>>, <<104, 255>>}

VARIABLES
    pc,            \* position of run(): a startup step, "loop", a select branch
                   \* whose handler is about to run, or how run() ended
    behaviour,     \* MyBehaviour: topic, floodsub (subscriptions, partial view),
                   \* mdns (its own live set of (peer, address)), and the lines
                   \* printed for received messages
    events,        \* behaviour events produced and not yet given to inject_event
    generated,     \* number of behaviour events produced so far
    stdin,         \* raw lines supplied on the input stream and not yet read
    stdinClosed,   \* the input stream has reached end-of-stream
    sigterm,       \* the ctrl_c() future: "waiting", "fired" or "regfail"
    got,           \* the value the taken select branch bound to its pattern
    published,     \* the floodsub publish calls made so far, in order
    polled,        \* the branches polled in the current iteration, in order
    read,          \* the raw lines the loop has taken from the input stream
    discovery,     \* per peer, the Discovery events handled for it, in order
    sent           \* the raw lines a peer running this program read and published

vars == <<pc, behaviour, events, generated, stdin, stdinClosed, sigterm, got,
          published, polled, read, discovery, sent>>

\* ------------------------------------------------------------- sequences
RECURSIVE SeqsUpTo(_, _)
\* sequences of distinct elements of S, of length 1..n
SeqsUpTo(S, n) ==
    IF n = 0 \/ S = {} THEN {}
    ELSE {<<x>> : x \in S}
         \cup {<<x>> \o t : <<x, t>> \in
                 {<<y, u>> \in S \X SeqsUpTo(S, n - 1) :
                     \A i \in 1..Len(u) : u[i] # y}}

Last(s) == s[Len(s)]
Front(s) == SubSeq(s, 1, Len(s) - 1)

\* ------------------------------------------------------------------ UTF-8
IsCont(b) == b \in 128..191

\* The byte at position i of bs, or -1 past the end.
ByteAt(bs, i) == IF i <= Len(bs) THEN bs[i] ELSE -1

\* The range the second byte of a sequence led by `first` must lie in.
SecondRange(first) ==
    CASE first = 224 -> 160..191
      [] first = 237 -> 128..159
      [] first = 240 -> 144..191
      [] first = 244 -> 128..143
      [] OTHER -> 128..191

\* Decoding one scalar value at position i: ok, the value, and the bytes it
\* takes; for an invalid sequence, ok is FALSE and len is its maximal prefix.
DecodeAt(bs, i) ==
    LET b1 == bs[i]
        b2 == ByteAt(bs, i + 1)
        b3 == ByteAt(bs, i + 2)
        b4 == ByteAt(bs, i + 3)
        Bad(n) == [ok |-> FALSE, cp |-> 65533, len |-> n]
    IN  CASE b1 < 128 -> [ok |-> TRUE, cp |-> b1, len |-> 1]
          [] b1 \in 194..223 ->
                IF IsCont(b2)
                THEN [ok |-> TRUE, cp |-> (b1 - 192) * 64 + (b2 - 128), len |-> 2]
                ELSE Bad(1)
          [] b1 \in 224..239 ->
                IF b2 \notin SecondRange(b1) THEN Bad(1)
                ELSE IF ~IsCont(b3) THEN Bad(2)
                ELSE [ok |-> TRUE,
                      cp |-> (b1 - 224) * 4096 + (b2 - 128) * 64 + (b3 - 128),
                      len |-> 3]
          [] b1 \in 240..244 ->
                IF b2 \notin SecondRange(b1) THEN Bad(1)
                ELSE IF ~IsCont(b3) THEN Bad(2)
                ELSE IF ~IsCont(b4) THEN Bad(3)
                ELSE [ok |-> TRUE,
                      cp |-> (b1 - 240) * 262144 + (b2 - 128) * 4096
                             + (b3 - 128) * 64 + (b4 - 128),
                      len |-> 4]
          [] OTHER -> Bad(1)

RECURSIVE DecodeFrom(_, _)
\* The scalar values of bs from position i on, invalid sequences replaced by
\* U+FFFD, and whether all of it was valid.
DecodeFrom(bs, i) ==
    IF i > Len(bs) THEN [ok |-> TRUE, s |-> <<>>]
    ELSE LET d == DecodeAt(bs, i)
             rest == DecodeFrom(bs, i + d.len)
         IN  [ok |-> d.ok /\ rest.ok, s |-> <<d.cp>> \o rest.s]

\* String::from_utf8: the string, or an error.
FromUtf8(bs) == DecodeFrom(bs, 1)

\* String::from_utf8_lossy
FromUtf8Lossy(bs) == DecodeFrom(bs, 1).s

\* The UTF-8 encoding of one scalar value.
EncodeChar(c) ==
    IF c < 128 THEN <<c>>
    ELSE IF c < 2048 THEN <<192 + (c \div 64), 128 + (c % 64)>>
    ELSE IF c < 65536
         THEN <<224 + (c \div 4096), 128 + ((c \div 64) % 64), 128 + (c % 64)>>
    ELSE <<240 + (c \div 262144), 128 + ((c \div 4096) % 64),
           128 + ((c \div 64) % 64), 128 + (c % 64)>>

RECURSIVE AsBytes(_)
\* str::as_bytes
AsBytes(s) == IF s = <<>> THEN <<>> ELSE EncodeChar(Head(s)) \o AsBytes(Tail(s))

\* ------------------------------------------------------------ MyBehaviour
\* Events of the two behaviours, as records of one shape.
MdnsEvent(kind, list) == [kind |-> kind, list |-> list, data |-> <<>>, source |-> "none"]
FloodsubMessage(data, source) ==
    [kind |-> "Message", list |-> <<>>, data |-> data, source |-> source]
FloodsubSubscribed(peer) ==
    [kind |-> "Subscribed", list |-> <<>>, data |-> <<>>, source |-> peer]

IsMdnsEvent(e) == e.kind \in {"Discovered", "Expired"}

\* Mdns::has_node: some address of the peer is in mDNS's own live set.
HasNode(mdns, peer) == \E e \in mdns : e[1] = peer

\* The peers a list of (peer, address) names.
PeersOf(list) == {list[i][1] : i \in 1..Len(list)}

\* What the struct holds before MyBehaviour::new has run.
NoBehaviour ==
    [topic |-> "none", subscribed |-> {}, partialView |-> {}, mdns |-> {},
     out |-> <<>>]

\* MyBehaviour::new, once Mdns::new has succeeded: the topic "chat", an empty
\* floodsub subscribed to it.
NewBehaviour ==
    [topic |-> "chat", subscribed |-> {"chat"}, partialView |-> {}, mdns |-> {},
     out |-> <<>>]

\* InjectFloodsubEvent decoding strictly: a message whose payload is not
\* valid UTF-8 is not printed.
InjectFloodsubEventStrict(b, message) ==
    IF message.kind = "Message" /\ FromUtf8(message.data).ok
    THEN [b EXCEPT !.out = Append(@, [text |-> FromUtf8Lossy(message.data),
                                       source |-> message.source])]
    ELSE b

\* InjectFloodsubEvent that also puts the sender of a message into the
\* partial view.
InjectFloodsubEventAddsSource(b, message) ==
    IF message.kind = "Message"
    THEN [b EXCEPT !.out = Append(@, [text |-> FromUtf8Lossy(message.data),
                                       source |-> message.source]),
                   !.partialView = @ \cup {message.source}]
    ELSE b

\* inject_event for a FloodsubEvent: a Message is printed, lossily decoded;
\* any other event is ignored.
InjectFloodsubEvent(b, message) ==
    IF message.kind = "Message"
    THEN [b EXCEPT !.out = Append(@, [text |-> FromUtf8Lossy(message.data),
                                       source |-> message.source])]
    ELSE b

RECURSIVE AddDiscoveredWhenUnknown(_, _)
\* AddDiscovered that adds a peer only when mDNS does not hold a node for it.
AddDiscoveredWhenUnknown(b, list) ==
    IF list = <<>> THEN b
    ELSE AddDiscoveredWhenUnknown(IF ~HasNode(b.mdns, Head(list)[1])
                                  THEN [b EXCEPT !.partialView = @ \cup {Head(list)[1]}]
                                  ELSE b,
                                  Tail(list))

RECURSIVE AddDiscovered(_, _)
\* The Discovered arm: every listed peer is added to the partial view.
AddDiscovered(b, list) ==
    IF list = <<>> THEN b
    ELSE AddDiscovered([b EXCEPT !.partialView = @ \cup {Head(list)[1]}],
                       Tail(list))

RECURSIVE RemoveExpiredWhenKnown(_, _)
\* RemoveExpired with the test inverted: removes a peer mDNS still holds.
RemoveExpiredWhenKnown(b, list) ==
    IF list = <<>> THEN b
    ELSE LET peer == Head(list)[1]
         IN  RemoveExpiredWhenKnown(IF HasNode(b.mdns, peer)
                                    THEN [b EXCEPT !.partialView = @ \ {peer}]
                                    ELSE b,
                                    Tail(list))

RECURSIVE RemoveExpiredUnchecked(_, _)
\* RemoveExpired without the has_node test: every listed peer is removed.
RemoveExpiredUnchecked(b, list) ==
    IF list = <<>> THEN b
    ELSE RemoveExpiredUnchecked([b EXCEPT !.partialView = @ \ {Head(list)[1]}],
                                Tail(list))

RECURSIVE RemoveExpired(_, _)
\* The Expired arm: a listed peer is removed from the partial view unless
\* mDNS still has a node for it.
RemoveExpired(b, list) ==
    IF list = <<>> THEN b
    ELSE LET peer == Head(list)[1]
         IN  RemoveExpired(IF ~HasNode(b.mdns, peer)
                           THEN [b EXCEPT !.partialView = @ \ {peer}]
                           ELSE b,
                           Tail(list))

\* InjectMdnsEvent that takes every event for a Discovered one.
InjectMdnsEventAlwaysAdds(b, event) == AddDiscovered(b, event.list)

\* inject_event for an MdnsEvent.
InjectMdnsEvent(b, event) ==
    IF event.kind = "Discovered" THEN AddDiscovered(b, event.list)
    ELSE RemoveExpired(b, event.list)

\* The derived NetworkBehaviour hands each behaviour's event to its
\* inject_event.
InjectEvent(b, e) ==
    IF IsMdnsEvent(e) THEN InjectMdnsEvent(b, e) ELSE InjectFloodsubEvent(b, e)

\* Publish sending the scalar values of msg as if they were its bytes.
PublishChars(b, pub, msg) == Append(pub, [topic |-> b.topic, data |-> msg])

\* MyBehaviour::publish: one floodsub publish on the behaviour's topic with
\* the bytes of msg.
Publish(b, pub, msg) == Append(pub, [topic |-> b.topic, data |-> AsBytes(msg)])

\* --------------------------------------------------------------- the swarm
RECURSIVE PollSwarm(_, _, _)
\* One poll of swarm.next(): the waiting events are given to inject_event in
\* order; the poll is ready when the event at position surf is returned to
\* the caller, and pending (surf = 0) when all were consumed inside.
PollSwarm(b, evs, surf) ==
    IF evs = <<>> THEN [b |-> b, events |-> evs, ready |-> FALSE]
    ELSE LET b1 == InjectEvent(b, Head(evs))
         IN  IF surf = 1 THEN [b |-> b1, events |-> Tail(evs), ready |-> TRUE]
             ELSE PollSwarm(b1, Tail(evs), surf - 1)

\* ReadLine that strips the "\n" and leaves the "\r" before it in the line.
ReadLineKeepsCr(raw) ==
    LET d == FromUtf8(raw)
        s == d.s
        s1 == IF s # <<>> /\ Last(s) = 10 THEN Front(s) ELSE s
    IN  IF d.ok THEN [tag |-> "Some", msg |-> s1] ELSE [tag |-> "Err", msg |-> <<>>]

\* ---------------------------------------------------------------- stdin
\* Lines::next_line on a raw line: invalid UTF-8 is a read error; otherwise
\* the text without its "\n", and without the "\r" before that "\n".
ReadLine(raw) ==
    LET d == FromUtf8(raw)
        s == d.s
        s1 == IF s # <<>> /\ Last(s) = 10 THEN Front(s) ELSE s
        s2 == IF s1 # s /\ s1 # <<>> /\ Last(s1) = 13 THEN Front(s1) ELSE s1
    IN  IF d.ok THEN [tag |-> "Some", msg |-> s2] ELSE [tag |-> "Err", msg |-> <<>>]

\* stdin.try_next() is ready when a line is buffered or the stream has ended.
StdinReady(buf, closed) == buf # <<>> \/ closed

\* The Result<Option<String>> a ready stdin.try_next() yields.
TryNext(buf) == IF buf # <<>> THEN ReadLine(Head(buf)) ELSE [tag |-> "None", msg |-> <<>>]

\* -------------------------------------------------------------- select!
Branches == <<"stdin", "swarm", "sigterm">>

RECURSIVE PollBranchesInputFirst(_, _, _, _, _, _)
\* PollBranches that passes over a ready sigterm while input is ready.
PollBranchesInputFirst(sel, i, s, surf, inReady, sigReady) ==
    IF i = Len(Branches) THEN [sel EXCEPT !.taken = "none"]
    ELSE LET br == Branches[((s + i) % Len(Branches)) + 1]
             sel1 == [sel EXCEPT !.polled = Append(@, br)]
             sw == PollSwarm(sel.b, sel.events, surf)
             sel2 == [sel1 EXCEPT !.b = sw.b, !.events = sw.events]
         IN  CASE br = "stdin" ->
                    IF inReady THEN [sel1 EXCEPT !.taken = br]
                    ELSE PollBranchesInputFirst(sel1, i + 1, s, surf, inReady, sigReady)
               [] br = "swarm" ->
                    IF sw.ready THEN [sel2 EXCEPT !.taken = br]
                    ELSE PollBranchesInputFirst(sel2, i + 1, s, surf, inReady, sigReady)
               [] OTHER ->
                    IF sigReady /\ ~inReady THEN [sel1 EXCEPT !.taken = br]
                    ELSE PollBranchesInputFirst(sel1, i + 1, s, surf, inReady, sigReady)

RECURSIVE PollBranches(_, _, _, _, _, _)
\* tokio::select! polls the three branches in cyclic order from a start index
\* and takes the first that is ready. sel carries the behaviour and the
\* events as the polls of swarm.next() leave them.
PollBranches(sel, i, s, surf, inReady, sigReady) ==
    IF i = Len(Branches) THEN [sel EXCEPT !.taken = "none"]
    ELSE LET br == Branches[((s + i) % Len(Branches)) + 1]
             sel1 == [sel EXCEPT !.polled = Append(@, br)]
             sw == PollSwarm(sel.b, sel.events, surf)
             sel2 == [sel1 EXCEPT !.b = sw.b, !.events = sw.events]
         IN  CASE br = "stdin" ->
                    IF inReady THEN [sel1 EXCEPT !.taken = br]
                    ELSE PollBranches(sel1, i + 1, s, surf, inReady, sigReady)
               [] br = "swarm" ->
                    IF sw.ready THEN [sel2 EXCEPT !.taken = br]
                    ELSE PollBranches(sel2, i + 1, s, surf, inReady, sigReady)
               [] OTHER ->
                    IF sigReady THEN [sel1 EXCEPT !.taken = br]
                    ELSE PollBranches(sel1, i + 1, s, surf, inReady, sigReady)

\* SigtermReady that is ready only when the registration failed: a signal
\* that fired is not seen by later polls.
SigtermReadyOnError(sig) == sig = "regfail"

\* The ctrl_c() future is ready once the signal fired, or at once with an
\* error when the signal handler could not be registered.
SigtermReady(sig) == sig # "waiting"
SigtermOutput(sig) == IF sig = "fired" THEN "Ok" ELSE "Err"

\* ------------------------------------------------------- branch handlers
NoValue == [tag |-> "none", msg |-> <<>>]

\* StdinHandler that logs the line and does not publish it.
StdinHandlerNoPublish(line, b, pub) ==
    CASE line.tag = "Err" -> [pc |-> "failed", published |-> pub]
      [] line.tag = "None" -> [pc |-> "panicked", published |-> pub]
      [] OTHER -> [pc |-> "loop", published |-> pub]

\* StdinHandler that goes round again on end-of-stream and on a read error.
StdinHandlerIgnoresEof(line, b, pub) ==
    IF line.tag \in {"Err", "None"} THEN [pc |-> "loop", published |-> pub]
    ELSE [pc |-> "loop", published |-> Publish(b, pub, line.msg)]

\* StdinHandler that falls through into the swarm branch's handler.
StdinHandlerFallsThrough(line, b, pub) ==
    CASE line.tag = "Err" -> [pc |-> "failed", published |-> pub]
      [] line.tag = "None" -> [pc |-> "panicked", published |-> pub]
      [] OTHER -> [pc |-> "swarm", published |-> Publish(b, pub, line.msg)]

\* StdinHandler that returns an error when the partial view holds no peer.
StdinHandlerNeedsPeer(line, b, pub) ==
    CASE line.tag = "Err" -> [pc |-> "failed", published |-> pub]
      [] line.tag = "None" -> [pc |-> "panicked", published |-> pub]
      [] b.partialView = {} -> [pc |-> "failed", published |-> pub]
      [] OTHER -> [pc |-> "loop", published |-> Publish(b, pub, line.msg)]

\* StdinHandler that publishes the line twice.
StdinHandlerPublishesTwice(line, b, pub) ==
    CASE line.tag = "Err" -> [pc |-> "failed", published |-> pub]
      [] line.tag = "None" -> [pc |-> "panicked", published |-> pub]
      [] OTHER -> [pc |-> "loop",
                   published |-> Publish(b, Publish(b, pub, line.msg), line.msg)]

\* The stdin branch: `line?` returns the read error from run(), `expect`
\* panics on end-of-stream, and a line is published.
StdinHandler(line, b, pub) ==
    CASE line.tag = "Err" -> [pc |-> "failed", published |-> pub]
      [] line.tag = "None" -> [pc |-> "panicked", published |-> pub]
      [] OTHER -> [pc |-> "loop", published |-> Publish(b, pub, line.msg)]

\* SwarmHandler that leaves the loop.
SwarmHandlerBreaks(event) == "done"

\* The swarm branch logs the event and the loop goes round again.
SwarmHandler(event) == "loop"

\* SigtermHandler without the break.
SigtermHandlerNoBreak(output) == "loop"

\* The sigterm branch: the pattern `_` takes the future's output whatever it
\* is, the loop breaks and run() returns Ok(()).
SigtermHandler(output) == "done"

\* ---------------------------------------------- the Discovery events handled
RECURSIVE NoteList(_, _, _, _)
\* The per-peer record of handled Discovery events after the entries of one
\* event: "appeared", and for a "disappeared" whether it was accepted (mDNS's
\* live set does not hold the peer when it is handled) or rejected.
NoteList(log, kind, list, mdns) ==
    IF list = <<>> THEN log
    ELSE LET peer == Head(list)[1]
             what == IF kind = "Discovered" THEN "appeared"
                     ELSE IF ~HasNode(mdns, peer) THEN "disappeared"
                     ELSE "rejected"
         IN  NoteList([log EXCEPT ![peer] = Append(@, what)], kind, Tail(list), mdns)

RECURSIVE NoteAll(_, _, _)
NoteAll(log, evs, mdns) ==
    IF evs = <<>> THEN log
    ELSE NoteAll(IF IsMdnsEvent(Head(evs))
                 THEN NoteList(log, Head(evs).kind, Head(evs).list, mdns)
                 ELSE log,
                 Tail(evs), mdns)

\* ------------------------------------------------------------------ Init
Init ==
    /\ pc = "start"
    /\ behaviour = NoBehaviour
    /\ events = <<>>
    /\ generated = 0
    /\ stdin = <<>>
    /\ stdinClosed = FALSE
    /\ sigterm \in {"waiting", "regfail"}
    /\ got = NoValue
    /\ published = <<>>
    /\ polled = <<>>
    /\ read = <<>>
    /\ discovery = [p \in Peers |-> <<>>]
    /\ sent = <<>>

\* ---------------------------------------------------------------- startup
loopVars == <<events, generated, stdin, stdinClosed, sigterm, got, published,
              polled, read, discovery, sent>>

\* identity::Keypair::generate_ed25519 and PeerId::from
GenerateIdentity ==
    /\ pc = "start"
    /\ pc' = "identity"
    /\ UNCHANGED <<behaviour, loopVars>>

\* make_transport: always Ok
MakeTransport ==
    /\ pc = "identity"
    /\ pc' = "transport"
    /\ UNCHANGED <<behaviour, loopVars>>

\* CreateBehaviour that goes on to the next step when Mdns::new has failed.
CreateBehaviourGoesOn(ok) ==
    /\ pc = "transport"
    /\ IF ok THEN pc' = "behaviour" /\ behaviour' = NewBehaviour
       ELSE pc' = "behaviour" /\ UNCHANGED behaviour
    /\ UNCHANGED loopVars

\* MyBehaviour::new: fails when Mdns::new fails
CreateBehaviour(ok) ==
    /\ pc = "transport"
    /\ IF ok THEN pc' = "behaviour" /\ behaviour' = NewBehaviour
       ELSE pc' = "failed" /\ UNCHANGED behaviour
    /\ UNCHANGED loopVars

\* SwarmBuilder::build and Swarm::listen_on: fails when listening fails
ListenOn(ok) ==
    /\ pc = "behaviour"
    /\ pc' = IF ok THEN "loop" ELSE "failed"
    /\ UNCHANGED <<behaviour, loopVars>>

\* ------------------------------------------------------------ environment
EventLists == SeqsUpTo(MdnsEntries, MaxList)

\* What floodsub reports: a message with either payload, or a subscription.
FloodsubEvents ==
    {FloodsubMessage(data, "p2") : data \in Payloads} \cup {FloodsubSubscribed("p2")}

Produce(e) ==
    /\ generated < MaxEvents
    /\ generated' = generated + 1
    /\ events' = Append(events, e)

envVars == <<pc, got, published, polled, read, discovery, sent>>

\* mDNS learns of nodes: they join its live set and it reports them.
MdnsDiscovers(list) ==
    /\ pc = "loop"
    /\ Produce(MdnsEvent("Discovered", list))
    /\ behaviour' = [behaviour EXCEPT !.mdns = @ \cup {list[i] : i \in 1..Len(list)}]
    /\ UNCHANGED <<envVars, stdin, stdinClosed, sigterm>>

\* Nodes of mDNS's live set expire: they leave it and it reports them.
MdnsExpires(list) ==
    /\ pc = "loop"
    /\ \A i \in 1..Len(list) : list[i] \in behaviour.mdns
    /\ Produce(MdnsEvent("Expired", list))
    /\ behaviour' = [behaviour EXCEPT !.mdns = @ \ {list[i] : i \in 1..Len(list)}]
    /\ UNCHANGED <<envVars, stdin, stdinClosed, sigterm>>

\* An Expired event that does not follow mDNS's live set: a report about a
\* node that never appeared, or that mDNS holds again.
MdnsReports(list) ==
    /\ pc = "loop"
    /\ Produce(MdnsEvent("Expired", list))
    /\ UNCHANGED <<envVars, behaviour, stdin, stdinClosed, sigterm>>

\* floodsub receives a message of the topic, or a subscription notice.
FloodsubReceives(e) ==
    /\ pc = "loop"
    /\ Produce(e)
    /\ UNCHANGED <<envVars, behaviour, stdin, stdinClosed, sigterm>>

\* The raw lines a peer can read from its own input stream: the delimited
\* lines, and a last line without delimiter.
PeerLines == RawLines \cup (FinalLines \ {<<>>})

\* A peer that runs this program reads a line and publishes it with its own
\* stdin branch; floodsub carries the payload to this node when this node is
\* subscribed to the topic.
PeerPublishes(raw) ==
    /\ pc = "loop"
    /\ LET h == StdinHandler(ReadLine(raw), NewBehaviour, <<>>)
       IN  /\ h.pc = "loop"
           /\ h.published[1].topic \in behaviour.subscribed
           /\ Produce(FloodsubMessage(h.published[1].data, "p2"))
    /\ sent' = Append(sent, raw)
    /\ UNCHANGED <<pc, got, published, polled, read, discovery, behaviour,
                   stdin, stdinClosed, sigterm>>

\* A delimited line arrives on the input stream.
TypeLine(raw) ==
    /\ pc = "loop"
    /\ ~stdinClosed
    /\ Len(read) + Len(stdin) < MaxLines
    /\ stdin' = Append(stdin, raw)
    /\ UNCHANGED <<envVars, behaviour, events, generated, stdinClosed, sigterm>>

\* The input stream ends, possibly after a last line without delimiter.
CloseStdin(final) ==
    /\ pc = "loop"
    /\ ~stdinClosed
    /\ stdinClosed' = TRUE
    /\ stdin' = IF final = <<>> THEN stdin ELSE Append(stdin, final)
    /\ UNCHANGED <<envVars, behaviour, events, generated, sigterm>>

\* The interrupt signal arrives.
SignalFires ==
    /\ pc = "loop"
    /\ sigterm = "waiting"
    /\ sigterm' = "fired"
    /\ UNCHANGED <<envVars, behaviour, events, generated, stdin, stdinClosed>>

\* ------------------------------------------------------------ the main loop
\* One poll of the select!: start index s, and the position surf of the
\* event swarm.next() returns (0: none).
Select(s, surf) ==
    /\ pc = "loop"
    /\ LET r == PollBranches([b |-> behaviour, events |-> events,
                              polled |-> <<>>, taken |-> "none"],
                             0, s, surf,
                             StdinReady(stdin, stdinClosed), SigtermReady(sigterm))
           handled == SubSeq(events, 1, Len(events) - Len(r.events))
       IN  /\ behaviour' = r.b
           /\ events' = r.events
           /\ discovery' = NoteAll(discovery, handled, behaviour.mdns)
           /\ pc' = IF r.taken = "none" THEN "loop" ELSE r.taken
           /\ polled' = IF r.taken = "none" THEN <<>> ELSE r.polled
           /\ got' = CASE r.taken = "stdin" -> TryNext(stdin)
                       [] r.taken = "sigterm" ->
                            [tag |-> SigtermOutput(sigterm), msg |-> <<>>]
                       [] OTHER -> NoValue
           /\ IF r.taken = "stdin" /\ stdin # <<>>
              THEN stdin' = Tail(stdin) /\ read' = Append(read, Head(stdin))
              ELSE UNCHANGED <<stdin, read>>
    /\ UNCHANGED <<generated, stdinClosed, sigterm, published, sent>>

handlerVars == <<behaviour, events, generated, stdin, stdinClosed, sigterm,
                 read, discovery, sent>>

StdinBranch ==
    /\ pc = "stdin"
    /\ LET h == StdinHandler(got, behaviour, published)
       IN  pc' = h.pc /\ published' = h.published
    /\ got' = NoValue
    /\ polled' = <<>>
    /\ UNCHANGED handlerVars

SwarmBranch ==
    /\ pc = "swarm"
    /\ pc' = SwarmHandler(got)
    /\ got' = NoValue
    /\ polled' = <<>>
    /\ UNCHANGED <<handlerVars, published>>

SigtermBranch ==
    /\ pc = "sigterm"
    /\ pc' = SigtermHandler(got)
    /\ got' = NoValue
    /\ polled' = <<>>
    /\ UNCHANGED <<handlerVars, published>>

\* The startup sequence of run().
Startup ==
    \/ GenerateIdentity
    \/ MakeTransport
    \/ \E ok \in BOOLEAN : CreateBehaviour(ok)
    \/ \E ok \in BOOLEAN : ListenOn(ok)

\* What mDNS does.
MdnsActs ==
    \/ \E list \in EventLists : MdnsDiscovers(list)
    \/ \E list \in EventLists : MdnsExpires(list)
    \/ \E list \in EventLists : MdnsReports(list)

\* What the input stream does.
StdinActs ==
    \/ \E raw \in RawLines : TypeLine(raw)
    \/ \E final \in FinalLines : CloseStdin(final)

\* One poll of the select! of the main loop.
Poll == \E s \in 0..(Len(Branches) - 1), surf \in 0..Len(events) : Select(s, surf)

\* The node with all of its environment.
Next ==
    \/ Startup
    \/ MdnsActs
    \/ \E e \in FloodsubEvents : FloodsubReceives(e)
    \/ StdinActs
    \/ SignalFires
    \/ Poll
    \/ StdinBranch
    \/ SwarmBranch
    \/ SigtermBranch

Spec == Init /\ [][Next]_vars

\* The node on a network, with no input supplied on stdin: mDNS, floodsub and
\* the signal act.
NextNetwork ==
    \/ Startup
    \/ MdnsActs
    \/ \E e \in FloodsubEvents : FloodsubReceives(e)
    \/ SignalFires
    \/ Poll
    \/ SwarmBranch
    \/ SigtermBranch

SpecNetwork == Init /\ [][NextNetwork]_vars

\* The node at its input, with no peer found by mDNS: the input stream,
\* floodsub and the signal act.
NextInput ==
    \/ Startup
    \/ \E e \in FloodsubEvents : FloodsubReceives(e)
    \/ StdinActs
    \/ SignalFires
    \/ Poll
    \/ StdinBranch
    \/ SwarmBranch
    \/ SigtermBranch

SpecInput == Init /\ [][NextInput]_vars

\* The node with a peer that runs the same program: the peer publishes its
\* input lines, this node receives them; the signal acts.
NextPeer ==
    \/ Startup
    \/ \E raw \in PeerLines : PeerPublishes(raw)
    \/ SignalFires
    \/ Poll
    \/ SwarmBranch
    \/ SigtermBranch

SpecPeer == Init /\ [][NextPeer]_vars

\* The peers of a set of (peer, address) pairs.
PeersIn(live) == {e[1] : e \in live}

\* The loop at its select! with mDNS holding the nodes of `live`, their
\* Discovered events handled and no event waiting.
Discovered(live) ==
    /\ pc = "loop"
    /\ behaviour = [NewBehaviour EXCEPT !.mdns = live, !.partialView = PeersIn(live)]
    /\ discovery = [p \in Peers |->
                      [i \in 1..Cardinality({e \in live : e[1] = p}) |-> "appeared"]]
    /\ events = <<>>
    /\ generated = 0
    /\ stdin = <<>>
    /\ stdinClosed = FALSE
    /\ sigterm = "waiting"
    /\ got = NoValue
    /\ published = <<>>
    /\ polled = <<>>
    /\ read = <<>>
    /\ sent = <<>>

InitDiscovery == \E live \in SUBSET MdnsEntries : Discovered(live)

\* The running node with an mDNS that reports every node it adds to its live
\* set and every node it drops from it, and nothing else; the signal acts.
NextDiscovery ==
    \/ \E list \in EventLists : MdnsDiscovers(list)
    \/ \E list \in EventLists : MdnsExpires(list)
    \/ SignalFires
    \/ Poll
    \/ SwarmBranch
    \/ SigtermBranch

SpecDiscovery == InitDiscovery /\ [][NextDiscovery]_vars

\* The node with every source of work at once: mDNS reports single nodes
\* that join and leave its live set, floodsub reports messages and
\* subscriptions, the line "hi" is typed, the signal acts.
NextView ==
    \/ Startup
    \/ \E e \in MdnsEntries : MdnsDiscovers(<<e>>)
    \/ \E e \in MdnsEntries : MdnsExpires(<<e>>)
    \/ \E e \in FloodsubEvents : FloodsubReceives(e)
    \/ TypeLine(<<104, 105, 10>>)
    \/ SignalFires
    \/ Poll
    \/ StdinBranch
    \/ SwarmBranch
    \/ SigtermBranch

SpecView == Init /\ [][NextView]_vars

\* The records the model keeps of what has happened (lines read, publish
\* calls, lines printed, events produced) are cut back to what still waits.
\* The program holds none of them; with them cut back, the input stream and
\* the network can go on supplying work within the bounds for ever.
Forget ==
    /\ pc = "loop"
    /\ read # <<>> \/ published # <<>> \/ behaviour.out # <<>> \/ generated > Len(events)
    /\ read' = <<>>
    /\ published' = <<>>
    /\ behaviour' = [behaviour EXCEPT !.out = <<>>]
    /\ generated' = Len(events)
    /\ UNCHANGED <<pc, events, stdin, stdinClosed, sigterm, got, polled, discovery, sent>>

\* The select! takes the sigterm branch.
TakeSigterm == Poll /\ pc' = "sigterm"

\* The node whose input stream and network never run dry: the line "hi" is
\* typed and a floodsub message arrives again and again, the stream may
\* end, the signal acts.
NextLive ==
    \/ Startup
    \/ FloodsubReceives(FloodsubMessage(<<104, 105>>, "p2"))
    \/ TypeLine(<<104, 105, 10>>)
    \/ CloseStdin(<<>>)
    \/ SignalFires
    \/ Forget
    \/ Poll
    \/ StdinBranch
    \/ SwarmBranch
    \/ SigtermBranch

\* tokio::select! draws the branch it polls first at random in every
\* iteration, so a branch that is ready again and again is taken in the
\* end; a branch body that was entered runs to its end.
Fairness ==
    /\ SF_vars(TakeSigterm)
    /\ WF_vars(StdinBranch \/ SwarmBranch \/ SigtermBranch)

SpecLive == Init /\ [][NextLive]_vars /\ Fairness

\* ================================================================ claims
Handlers == {"stdin", "swarm", "sigterm"}
Exited == {"done", "failed", "panicked"}

\* The last Discovery event of a peer's record that was not rejected.
RECURSIVE LastAccepted(_)
LastAccepted(l) ==
    IF l = <<>> THEN "none"
    ELSE IF Last(l) # "rejected" THEN Last(l)
    ELSE LastAccepted(Front(l))

\* The events the step gives to inject_event: the prefix of events it consumes.
HandledNow ==
    IF Len(events') < Len(events)
    THEN SubSeq(events, 1, Len(events) - Len(events'))
    ELSE <<>>

\* The bytes of a raw line without its delimiter "\n" or "\r\n".
LineBytes(raw) ==
    LET r1 == IF raw # <<>> /\ Last(raw) = 10 THEN Front(raw) ELSE raw
    IN  IF r1 # raw /\ r1 # <<>> /\ Last(r1) = 13 THEN Front(r1) ELSE r1

\* C1: a peer is in the partial view if and only if the last Discovery event
\* handled for it that was not a rejected "disappeared" is an "appeared"
\* (a "disappeared" is rejected exactly when mDNS's live set holds the peer
\* at the time it is handled).
C1_ViewIsLastAccepted ==
    \A p \in Peers :
        p \in behaviour.partialView <=> LastAccepted(discovery[p]) = "appeared"

\* appeared(p1), then disappeared(p1) with p1 absent from the live set.
C1_Witness ==
    /\ discovery["p1"] = <<"appeared", "disappeared">>
    /\ "p1" \notin behaviour.partialView

\* C2: handling "disappeared" events leaves in place the membership of every
\* peer that mDNS's live set still holds, and of every peer they do not name.
C2_ExpiredWhileLiveKeepsView ==
    [][(\A p \in Peers :
           (/\ HandledNow # <<>>
            /\ \A i \in 1..Len(HandledNow) : HandledNow[i].kind # "Discovered"
            /\ \/ HasNode(behaviour.mdns, p)
               \/ \A i \in 1..Len(HandledNow) : p \notin PeersOf(HandledNow[i].list))
           => (p \in behaviour'.partialView <=> p \in behaviour.partialView))]_vars

\* p1 appeared, its "disappeared" was rejected, and it is still in the view.
C2_Witness ==
    /\ discovery["p1"] = <<"appeared", "rejected">>
    /\ "p1" \in behaviour.partialView

\* C3: once the sigterm branch is taken the loop exits and nothing more is
\* processed: no line is read or published, no behaviour event is handled.
C3_NothingAfterSigterm ==
    [][(pc \in {"sigterm", "done"}
          => /\ pc' = "done"
             /\ UNCHANGED <<published, read, stdin, events, behaviour, discovery>>)]_vars

\* run() has returned with an input line and a behaviour event still waiting.
C3_Witness ==
    /\ pc = "done"
    /\ sigterm = "fired"
    /\ stdin # <<>>
    /\ events # <<>>

\* C4 as stated: once the signal has fired no line is read and none is
\* published.
C4_NoReadAfterSignal ==
    [][(sigterm = "fired" => read' = read /\ published' = published)]_vars

\* C4 amended: once the signal has fired, the input branch is taken (a line
\* read and then published) only by a select! that polls the input branch
\* first; a select! that polls the sigterm branch before it takes no input.
C4_ReadAfterSignalOnlyWhenPolledFirst ==
    [][(sigterm = "fired"
          => /\ (pc = "loop" /\ pc' = "stdin") => polled' = <<"stdin">>
             /\ read' # read => polled' = <<"stdin">>
             /\ published' # published => polled = <<"stdin">>)]_vars

\* A line is about to be published although the signal has fired.
C4_Witness ==
    /\ sigterm = "fired"
    /\ pc = "stdin"
    /\ got.tag = "Some"

\* C5 as stated, for a run that ends normally after the signal has fired:
\* run() never ends while a supplied line is unprocessed.
C5_NoPendingInputAtExit == (pc = "done" /\ sigterm = "fired") => stdin = <<>>

\* C5 amended: when run() has ended, every valid line the loop took from the
\* input stream has been published; lines it had not yet taken stay unread.
C5_TakenLinesPublishedAtExit ==
    pc \in Exited
      => Len(published) = Cardinality({i \in 1..Len(read) : FromUtf8(read[i]).ok})

\* run() has returned after publishing a line, with another still waiting.
C5_Witness ==
    /\ pc = "done"
    /\ Len(published) = 1
    /\ stdin # <<>>

\* C6: a line taken by the loop is published in that iteration, once, on the
\* topic "chat", with the bytes of the line without its delimiter; nothing
\* else is ever published.
C6_LinePublishedOnce ==
    [][(/\ (pc = "stdin" /\ got.tag = "Some")
             => /\ published' = Append(published,
                                       [topic |-> "chat", data |-> LineBytes(Last(read))])
                /\ pc' = "loop"
        /\ published' # published => (pc = "stdin" /\ got.tag = "Some"))]_vars

\* The line "e-acute\r\n" was read and published as the two bytes of e-acute.
C6_Witness ==
    /\ read = <<<<195, 169, 13, 10>>>>
    /\ published = <<[topic |-> "chat", data |-> <<195, 169>>]>>

\* C7: when the input branch is taken at end-of-stream run() panics, when it
\* is taken with a read error run() returns the error; neither publishes, and
\* no step follows.
C7_InputEndIsFatal ==
    [][(/\ (pc = "stdin" /\ got.tag = "None")
             => (pc' = "panicked" /\ published' = published)
        /\ (pc = "stdin" /\ got.tag = "Err")
             => (pc' = "failed" /\ published' = published)
        /\ pc \in {"panicked", "failed"} => pc' = pc /\ published' = published)]_vars

\* The stream ended after one published line and run() panicked.
C7_Witness ==
    /\ pc = "panicked"
    /\ stdinClosed
    /\ published # <<>>

\* C8 as stated: run() returns normally only after the signal has fired; a
\* failed registration of the signal handler does not end it normally.
C8_NormalExitOnlyBySignal == pc = "done" => sigterm = "fired"

C10_SwarmEventKeepsLoop == [][pc = "swarm" => pc' = "loop"]_vars

\* The swarm branch was taken after an mDNS event was handled.
C10_Witness ==
    /\ pc = "swarm"
    /\ \E p \in Peers : discovery[p] # <<>>

IsMessage(e) == e.kind = "Message"

\* The floodsub messages among the events the step gives to inject_event.
MessagesNow == SelectSeq(HandledNow, IsMessage)

\* C11: every floodsub message handled adds one line to the output, in order,
\* with the sender: a valid payload as its text, an invalid one with U+FFFD
\* in place of the invalid bytes and the rest kept; nothing else is printed,
\* and handling events never ends run().
C11_MessageAlwaysPrinted ==
    [][(/\ Len(behaviour'.out) = Len(behaviour.out) + Len(MessagesNow)
        /\ \A i \in 1..Len(MessagesNow) :
              LET line == behaviour'.out[Len(behaviour.out) + i]
                  data == MessagesNow[i].data
              IN  /\ line.source = MessagesNow[i].source
                  /\ SubSeq(behaviour'.out, 1, Len(behaviour.out)) = behaviour.out
                  /\ FromUtf8(data).ok => AsBytes(line.text) = data
                  /\ data = <<104, 255>> => line.text = <<104, 65533>>
        /\ HandledNow # <<>> => pc' \notin Exited)]_vars

\* The invalid payload was printed as "h" and U+FFFD, and the loop runs on.
C11_Witness ==
    /\ pc = "loop"
    /\ \E i \in 1..Len(behaviour.out) :
          behaviour.out[i] = [text |-> <<104, 65533>>, source |-> "p2"]

\* C12: publishing a line while the partial view is empty does not end run()
\* and does not wait: the publish call is made, the loop goes round again,
\* and nothing else of the node changes.
C12_PublishWithEmptyView ==
    [][((pc = "stdin" /\ got.tag = "Some" /\ behaviour.partialView = {})
          => /\ pc' = "loop"
             /\ Len(published') = Len(published) + 1
             /\ UNCHANGED <<behaviour, events, generated, stdin, stdinClosed,
                            sigterm, read, discovery>>)]_vars

\* A line was published with no peer in the view, and the loop is back at
\* its select! with the next line waiting.
C12_Witness ==
    /\ pc = "loop"
    /\ behaviour.partialView = {}
    /\ Len(published) = 1
    /\ stdin # <<>>

\* C13: what this node prints for the messages of a peer that runs the same
\* program is, line for line, the peer's input: the bytes of the printed
\* text are the bytes of the peer's raw line without its delimiter.
C13_RoundTrip ==
    /\ Len(behaviour.out) <= Len(sent)
    /\ \A i \in 1..Len(behaviour.out) :
          AsBytes(behaviour.out[i].text) = LineBytes(sent[i])

\* The peer's lines "e-acute\r\n" and "h\r" (no delimiter) were both printed.
C13_Witness ==
    /\ sent = <<<<195, 169, 13, 10>>, <<104, 13>>>>
    /\ Len(behaviour.out) = 2
    /\ behaviour.out[1].text = <<233>>

\* No "appeared" is in the record of a peer.
NoAppeared(l) == \A i \in 1..Len(l) : l[i] # "appeared"

\* C14: handling a "disappeared" event for a peer that never appeared leaves
\* the peer out of the partial view and does not end run(); when the events
\* a step handles are all of that sort, the partial view is what it was.
C14_ExpiredWithoutAppeared ==
    [][(/\ \A p \in Peers :
              (NoAppeared(discovery'[p]) /\ discovery'[p] # discovery[p])
                 => /\ p \notin behaviour.partialView
                    /\ p \notin behaviour'.partialView
                    /\ pc' \notin Exited
        /\ (/\ HandledNow # <<>>
            /\ \A i \in 1..Len(HandledNow) :
                  /\ HandledNow[i].kind # "Discovered"
                  /\ \A q \in PeersOf(HandledNow[i].list) : NoAppeared(discovery[q]))
             => behaviour'.partialView = behaviour.partialView)]_vars

\* p1 is in the view, and a "disappeared" was handled for p2, which never
\* appeared.
C14_Witness ==
    /\ discovery["p1"] = <<"appeared">>
    /\ discovery["p2"] = <<"disappeared">>
    /\ behaviour.partialView = {"p1"}

\* C15: the partial view changes only in a step that gives an mDNS event to
\* inject_event. The handlers of the stdin branch (publish), of the swarm
\* branch and of the sigterm branch leave it as it is, and so does a step
\* that handles floodsub events only.
C15_ViewChangedOnlyByMdns ==
    [][(/\ behaviour'.partialView # behaviour.partialView
             => /\ pc = "loop"
                /\ \E i \in 1..Len(HandledNow) : IsMdnsEvent(HandledNow[i])
        /\ pc \in Handlers => behaviour'.partialView = behaviour.partialView
        /\ published' # published => behaviour'.partialView = behaviour.partialView
        /\ (\A i \in 1..Len(HandledNow) : ~IsMdnsEvent(HandledNow[i]))
             => behaviour'.partialView = behaviour.partialView)]_vars

\* A line was published and a floodsub message printed while p1 is in the
\* partial view.
C15_Witness ==
    /\ behaviour.partialView = {"p1"}
    /\ published # <<>>
    /\ behaviour.out # <<>>

StartupSteps == {"start", "identity", "transport", "behaviour"}

\* C16: startup goes identity, transport, behaviour (subscribed to "chat"),
\* listen, loop, one step after the other; a step that fails ends run() with
\* its error, after which nothing runs; the loop is entered from the listen
\* step only, with the behaviour constructed; and until the loop is entered
\* no line is read, nothing is published and no event is handled.
C16_StartupOrder ==
    [][(/\ pc = "start" => pc' = "identity"
        /\ pc = "identity" => pc' = "transport"
        /\ pc = "transport"
             => \/ pc' = "behaviour" /\ behaviour' = NewBehaviour
                \/ pc' = "failed" /\ behaviour' = NoBehaviour
        /\ pc = "behaviour" => pc' \in {"loop", "failed"}
        /\ pc \in StartupSteps \cup {"failed"}
             => UNCHANGED <<read, published, stdin, events, discovery>>
        /\ pc \in StartupSteps
             => read = <<>> /\ published = <<>> /\ behaviour.out = <<>>
        /\ pc = "failed" => pc' = "failed"
        /\ pc' \in {"loop"} \cup Handlers
             => /\ pc \in {"behaviour", "loop"} \cup Handlers
                /\ behaviour'.topic = "chat"
                /\ "chat" \in behaviour'.subscribed)]_vars

\* Listening failed after the behaviour was constructed: run() has ended with
\* the error, nothing was read.
C16_Witness ==
    /\ pc = "failed"
    /\ behaviour = NewBehaviour
    /\ read = <<>>
    /\ stdin = <<>>

\* s is a prefix of t.
IsPrefix(s, t) == Len(s) <= Len(t) /\ SubSeq(t, 1, Len(s)) = s

\* C17: the lines the input stream has delivered (those taken by the loop,
\* then those still waiting) only grow at the end; the loop takes them from
\* the front; and the payloads published are, one for one and in order, the
\* bytes of the first of them without their delimiters, at most one taken
\* line being not yet published.
C17_PublishedIsPrefixOfInput ==
    [][(/\ IsPrefix(read \o stdin, read' \o stdin')
        /\ IsPrefix(read, read')
        /\ IsPrefix(published, published')
        /\ Len(published') <= Len(read')
        /\ Len(read') <= Len(published') + 1
        /\ \A i \in 1..Len(published') :
              published'[i].data = LineBytes((read' \o stdin')[i]))]_vars

\* Two lines were published in the order they were typed, and a floodsub
\* message was handled in the same run.
C17_Witness ==
    /\ Len(published) = 2
    /\ published[1].data = <<104, 105>>
    /\ published[2].data = <<195, 169>>
    /\ behaviour.out # <<>>

\* No mDNS event is waiting to be handled.
NoMdnsPending(evs) == \A i \in 1..Len(evs) : ~IsMdnsEvent(evs[i])

\* C18: with an mDNS that reports every node it adds and every node it
\* drops, whenever no mDNS event is waiting the partial view is the set of
\* peers of mDNS's live set; and a peer leaves the view only in a step that
\* handles a "disappeared" for it while the live set holds none of its
\* addresses.
C18_ViewIsLiveSetWhenQuiet ==
    [][(/\ NoMdnsPending(events) => behaviour.partialView = PeersIn(behaviour.mdns)
        /\ NoMdnsPending(events') => behaviour'.partialView = PeersIn(behaviour'.mdns)
        /\ \A p \in Peers :
              (p \in behaviour.partialView /\ p \notin behaviour'.partialView)
                 => /\ ~HasNode(behaviour.mdns, p)
                    /\ \E i \in 1..Len(HandledNow) :
                          /\ HandledNow[i].kind = "Expired"
                          /\ p \in PeersOf(HandledNow[i].list))]_vars

\* p1 had two addresses: it stayed in the view when the first expired and
\* left it when the second did.
C18_Witness ==
    /\ discovery["p1"] = <<"appeared", "appeared", "rejected", "disappeared">>
    /\ "p1" \notin behaviour.partialView
    /\ events = <<>>

\* C19 as stated: once the signal has fired, run() eventually returns
\* normally.
C19_SignalLeadsToNormalExit == (sigterm = "fired") ~> (pc = "done")

\* C19 amended: a signal that has fired stays fired, and from then on run()
\* eventually ends, however long input lines and events keep coming: it
\* returns normally through the sigterm branch, unless the stdin branch is
\* taken before it at end-of-stream (run() panics) or with a read error
\* (run() returns the error).
C19_SignalLeadsToExit ==
    /\ [][sigterm = "fired" => sigterm' = "fired"]_vars
    /\ (sigterm = "fired") ~> (pc \in Exited)
    /\ []((sigterm = "fired" /\ pc = "panicked") => (stdinClosed /\ stdin = <<>>))
    /\ []((sigterm = "fired" /\ pc = "failed")
            => (read # <<>> /\ ~FromUtf8(Last(read)).ok))

\* The sigterm branch was taken, after the swarm was polled and was not
\* ready, while a line waits on the input stream.
C19_Witness ==
    /\ pc = "sigterm"
    /\ got.tag = "Ok"
    /\ polled = <<"swarm", "sigterm">>
    /\ stdin # <<>>

====
